---- MODULE Spec2Model ----
(***************************************************************************)
(* gdax-market-indexer: one goroutine per (market, channel) reads frames   *)
(* from a websocket and adds index requests to one shared elastic bulk     *)
(* processor; main cancels a context on interrupt and waits on a           *)
(* sync.WaitGroup.  Source: src/gdax-market-indexer.go.                    *)
(***************************************************************************)
EXTENDS Naturals, FiniteSets, Sequences, TLC

\* ---------------------------------------------------------------- bounds
\* Total number of panics explored over all stream goroutines.
MaxFaults == 2
\* Total number of ticks of the read loops explored over all stream goroutines.
MaxReads == 2
\* Total number of panics and ticks explored together.
MaxEvents == 3
\* The elastic-client-batch-size of the configurations explored.
BatchSize == 2

\* The end-to-end scenario: valid ticker frames sent per market, and the
\* batch size it configures.
ScenarioFrames == 5
ScenarioBatchSize == 3

\* ---------------------------------------------------------- configuration
\* config.ElasticIndexName
ElasticIndexName == "gdax"
\* The markets a configuration file may list in gdax-markets.
GDAXMarkets == {"BTC-USD", "ETH-USD"}
\* The configurations explored from startup: no market or one market.
Configurations ==
    {[GDAXMarkets |-> markets, ElasticClientBatchSize |-> BatchSize] :
        markets \in {{}, {"BTC-USD"}}}
\* The channel names of the two subscribe frames.
Channels == {"level2", "ticker"}
\* One stream goroutine per configured market and channel.
Tasks == GDAXMarkets \X Channels

\* The document type of the index requests of each channel.
DocType(channel) == IF channel = "level2" THEN "snap-shot" ELSE "ticker"

\* A frame the exchange sends: its JSON may or may not hold a "time" field.
\* time 0 is the zero time, time 1 any other timestamp.
Frames == {f \in [hasTime : BOOLEAN, time : {0, 1}] : ~f.hasTime => f.time = 0}

\* No subscribe frame written yet, no request built yet.
None == [none |-> TRUE]

\* wsConn.ReadJSON(&message) decodes into the message declared once before the
\* loop: a field the JSON does not hold keeps the value of the previous read.
ReadJSON(message, f) == IF f.hasTime THEN f.time ELSE message

\* message.Time.Time().IsZero()
IsZero(time) == time = 0

VARIABLES
    config,     \* the loaded configuration
    mainPc,     \* where main is
    proc,       \* "running", or how the process ended
    ctxDone,    \* ctx has been cancelled
    wg,         \* the WaitGroup's counter
    clientPc,   \* the goroutine that stops the elastic client
    bulkPc,     \* the goroutine that closes the bulk processor
    pc,         \* per stream goroutine: where its current invocation is
    indexName,  \* per stream goroutine: parameter indexName of the invocation
    coin,       \* per stream goroutine: parameter coin of the invocation
    wsConn,     \* per stream goroutine: "none", "nil", "open" or "closed"
    subscribed, \* per stream goroutine: the subscribe frame of the invocation
    message,    \* per stream goroutine: message.Time of the loop's variable
    restarts,   \* per stream goroutine: invocations made by restartX
    nValid,     \* per stream goroutine: valid frames read by this invocation
    nAdded,     \* per stream goroutine: requests added by this invocation
    watchers,   \* goroutines waiting on ctx.Done() to call os.Exit(1)
    reads,      \* ticks taken so far, over all goroutines
    readErr,    \* the last wsConn.ReadJSON returned an error
    added,      \* per stream goroutine: the last r of elasticBulkProcessor.Add(r)
    openConns,  \* per stream goroutine: connections dialled and not closed
    indexExists,\* the configured index exists in the index store
    bulkActions,\* the bulk processor's size threshold, 0 before it is built
    batch,      \* the bulk processor's pending requests, per market
    flushes     \* the batches the bulk processor has flushed, in order

vars == <<config, mainPc, proc, ctxDone, wg, clientPc, bulkPc, pc, indexName,
          coin, wsConn, subscribed, message, restarts, nValid, nAdded,
          watchers, reads, readErr, added, openConns, indexExists,
          bulkActions, batch, flushes>>

mainVars == <<config, mainPc, proc, ctxDone, wg>>
shutVars == <<clientPc, bulkPc>>
taskVars == <<pc, indexName, coin, wsConn, subscribed, message, restarts,
              nValid, nAdded, watchers, reads, readErr, added, openConns>>
storeVars == <<indexExists, bulkActions, batch, flushes>>

\* The panics so far and the ones already bound to happen (a nil wsConn).
RECURSIVE SumFaults(_)
SumFaults(S) ==
    IF S = {} THEN 0
    ELSE LET t == CHOOSE x \in S : TRUE
         IN restarts[t]
            + (IF pc[t] = "recover" THEN 1 ELSE 0)
            + (IF pc[t] = "subscribe" /\ wsConn[t] = "nil" THEN 1 ELSE 0)
            + SumFaults(S \ {t})

Faults == SumFaults(Tasks)

\* One more panic, or one more tick, is within the bounds explored.
MayPanic == Faults < MaxFaults /\ Faults + reads < MaxEvents
MayTick == reads < MaxReads /\ Faults + reads < MaxEvents

\* The bulk processor with nothing pending.
NoRequests == [market \in GDAXMarkets |-> 0]

Init ==
    /\ config \in Configurations
    /\ mainPc = "client"
    /\ proc = "running"
    /\ ctxDone = FALSE
    /\ wg = 0
    /\ clientPc = "none"
    /\ bulkPc = "none"
    /\ pc = [t \in Tasks |-> "unstarted"]
    /\ indexName = [t \in Tasks |-> ElasticIndexName]
    /\ coin = [t \in Tasks |-> t[1]]
    /\ wsConn = [t \in Tasks |-> "none"]
    /\ subscribed = [t \in Tasks |-> None]
    /\ message = [t \in Tasks |-> 0]
    /\ restarts = [t \in Tasks |-> 0]
    /\ nValid = [t \in Tasks |-> 0]
    /\ nAdded = [t \in Tasks |-> 0]
    /\ watchers = 0
    /\ reads = 0
    /\ readErr = FALSE
    /\ added = [t \in Tasks |-> None]
    /\ openConns = [t \in Tasks |-> 0]
    /\ indexExists \in BOOLEAN
    /\ bulkActions = 0
    /\ batch = NoRequests
    /\ flushes = <<>>

\* ------------------------------------------------------------------ main
\* logElastic.Fatal / logMain.Fatal: log, then os.Exit(1).
Fatal ==
    /\ proc' = "fatal"
    /\ UNCHANGED <<config, mainPc, ctxDone, wg>>
    /\ UNCHANGED shutVars
    /\ UNCHANGED taskVars
    /\ UNCHANGED storeVars

\* initializeElasticClient and main's check of its error.
initializeElasticClient ==
    /\ proc = "running"
    /\ mainPc = "client"
    /\ \/ Fatal
       \/ /\ wg' = wg + 1
          /\ clientPc' = "wait"
          /\ mainPc' = "bulk"
          /\ UNCHANGED <<config, proc, ctxDone, bulkPc>>
          /\ UNCHANGED taskVars
          /\ UNCHANGED storeVars

\* initializeElasticBulkProcessor with BulkActions one above the configured
\* size.
initializeElasticBulkProcessorOffByOne ==
    /\ proc = "running"
    /\ mainPc = "bulk"
    /\ \/ Fatal
       \/ /\ bulkActions' = config.ElasticClientBatchSize + 1
          /\ wg' = wg + 1
          /\ bulkPc' = "wait"
          /\ mainPc' = "index"
          /\ UNCHANGED <<config, proc, ctxDone, clientPc>>
          /\ UNCHANGED taskVars
          /\ UNCHANGED <<indexExists, batch, flushes>>

\* initializeElasticBulkProcessor and main's check of its error:
\* BulkActions(config.ElasticClientBatchSize), the shutdown goroutine.
initializeElasticBulkProcessor ==
    /\ proc = "running"
    /\ mainPc = "bulk"
    /\ \/ Fatal
       \/ /\ bulkActions' = config.ElasticClientBatchSize
          /\ wg' = wg + 1
          /\ bulkPc' = "wait"
          /\ mainPc' = "index"
          /\ UNCHANGED <<config, proc, ctxDone, clientPc>>
          /\ UNCHANGED taskVars
          /\ UNCHANGED <<indexExists, batch, flushes>>

\* initializeIndex with its errors logged instead of fatal.
initializeIndexLogsError ==
    /\ proc = "running"
    /\ mainPc = "index"
    /\ \E existError, jsonErr, createIndexErr \in BOOLEAN :
          LET exists == indexExists IN
          /\ mainPc' = "launch"
          /\ indexExists' =
                (exists \/ ~(existError \/ jsonErr \/ createIndexErr))
          /\ UNCHANGED <<config, proc, ctxDone, wg>>
          /\ UNCHANGED shutVars
          /\ UNCHANGED taskVars
          /\ UNCHANGED <<bulkActions, batch, flushes>>

\* initializeIndex: the existence check and, when the index does not exist,
\* the template file and the creation; each error is fatal.
initializeIndex ==
    /\ proc = "running"
    /\ mainPc = "index"
    /\ \E existError, jsonErr, createIndexErr \in BOOLEAN :
          LET exists == indexExists IN
          IF existError \/ (~exists /\ (jsonErr \/ createIndexErr))
          THEN Fatal
          ELSE /\ mainPc' = "launch"
               /\ indexExists' = TRUE
               /\ UNCHANGED <<config, proc, ctxDone, wg>>
               /\ UNCHANGED shutVars
               /\ UNCHANGED taskVars
               /\ UNCHANGED <<bulkActions, batch, flushes>>

\* The loop's turn without its two wg.Add(1).
launchNoAdd(market) ==
    /\ proc = "running"
    /\ mainPc = "launch"
    /\ market \in config.GDAXMarkets
    /\ pc[<<market, "level2">>] = "unstarted"
    /\ wg' = wg
    /\ pc' = [pc EXCEPT ![<<market, "level2">>] = "dial",
                        ![<<market, "ticker">>] = "dial"]
    /\ UNCHANGED <<config, mainPc, proc, ctxDone>>
    /\ UNCHANGED shutVars
    /\ UNCHANGED <<indexName, coin, wsConn, subscribed, message, restarts,
                   nValid, nAdded, watchers, reads, readErr, added,
                   openConns>>
    /\ UNCHANGED storeVars

\* One turn of main's loop over config.GDAXMarkets: two wg.Add(1), two go.
launch(market) ==
    /\ proc = "running"
    /\ mainPc = "launch"
    /\ market \in config.GDAXMarkets
    /\ pc[<<market, "level2">>] = "unstarted"
    /\ wg' = wg + 2
    /\ pc' = [pc EXCEPT ![<<market, "level2">>] = "dial",
                        ![<<market, "ticker">>] = "dial"]
    /\ UNCHANGED <<config, mainPc, proc, ctxDone>>
    /\ UNCHANGED shutVars
    /\ UNCHANGED <<indexName, coin, wsConn, subscribed, message, restarts,
                   nValid, nAdded, watchers, reads, readErr, added,
                   openConns>>
    /\ UNCHANGED storeVars

\* waitForSignal returns on the interrupt, then cancel().
waitForSignal ==
    /\ proc = "running"
    /\ mainPc = "launch"
    /\ \A market \in config.GDAXMarkets : pc[<<market, "level2">>] # "unstarted"
    /\ ctxDone' = TRUE
    /\ mainPc' = "wait"
    /\ UNCHANGED <<config, proc, wg>>
    /\ UNCHANGED shutVars
    /\ UNCHANGED taskVars
    /\ UNCHANGED storeVars

\* wg.Wait() returns when the counter is zero, and main returns.
wgWait ==
    /\ proc = "running"
    /\ mainPc = "wait"
    /\ wg = 0
    /\ mainPc' = "returned"
    /\ proc' = "returned"
    /\ UNCHANGED <<config, ctxDone, wg>>
    /\ UNCHANGED shutVars
    /\ UNCHANGED taskVars
    /\ UNCHANGED storeVars

\* ------------------------------------------------- the shutdown goroutines
\* The goroutine of initializeElasticClient: <-ctx.Done(), elasticClient.Stop(),
\* then the deferred wg.Done().
elasticClientShutdown ==
    /\ proc = "running"
    /\ \/ /\ clientPc = "wait"
          /\ ctxDone
          /\ clientPc' = "stopped"
          /\ UNCHANGED wg
       \/ /\ clientPc = "stopped"
          /\ clientPc' = "done"
          /\ wg' = wg - 1
    /\ UNCHANGED <<config, mainPc, proc, ctxDone, bulkPc>>
    /\ UNCHANGED taskVars
    /\ UNCHANGED storeVars

\* ---------------------------------------------------- the bulk processor
\* The number of requests of a batch.
RECURSIVE NumberOfActions(_, _)
NumberOfActions(b, S) ==
    IF S = {} THEN 0
    ELSE LET t == CHOOSE x \in S : TRUE
         IN b[t] + NumberOfActions(b, S \ {t})

\* A flush: the pending batch is sent and the batch is empty again.
Commit(b) ==
    /\ flushes' = Append(flushes, b)
    /\ batch' = NoRequests

\* elasticBulkProcessor.Add(r) by goroutine t: the request joins the batch,
\* and a batch that has reached the size threshold is flushed.
Add(t) ==
    LET b == [batch EXCEPT ![t[1]] = @ + 1] IN
    IF NumberOfActions(b, GDAXMarkets) >= bulkActions
    THEN Commit(b)
    ELSE batch' = b /\ UNCHANGED flushes

\* The flush interval elapses with requests pending.
flushInterval ==
    /\ proc = "running"
    /\ bulkPc = "wait"
    /\ batch # NoRequests
    /\ Commit(batch)
    /\ UNCHANGED <<indexExists, bulkActions>>
    /\ UNCHANGED mainVars
    /\ UNCHANGED shutVars
    /\ UNCHANGED taskVars

\* elasticBulkProcessor.Close(): what is pending is flushed.
Close ==
    IF batch # NoRequests THEN Commit(batch) ELSE UNCHANGED <<batch, flushes>>

\* The goroutine of initializeElasticBulkProcessor: <-ctx.Done(),
\* elasticBulkProcessor.Close() is called, Close() returns, then the deferred
\* wg.Done().
elasticBulkProcessorShutdown ==
    /\ proc = "running"
    /\ \/ /\ bulkPc = "wait"
          /\ ctxDone
          /\ bulkPc' = "closing"
          /\ UNCHANGED <<wg, batch, flushes>>
       \/ /\ bulkPc = "closing"
          /\ bulkPc' = "closed"
          /\ Close
          /\ UNCHANGED wg
       \/ /\ bulkPc = "closed"
          /\ bulkPc' = "done"
          /\ wg' = wg - 1
          /\ UNCHANGED <<batch, flushes>>
    /\ UNCHANGED <<config, mainPc, proc, ctxDone, clientPc>>
    /\ UNCHANGED taskVars
    /\ UNCHANGED <<indexExists, bulkActions>>

\* ---------------------------------------------------- the stream goroutines
\* wsDialer.Dial: a connection, or nil and an error that is logged; either way
\* the function goes on to defer wsConn.Close() and to the subscribe frame.
Dial(t) ==
    /\ proc = "running"
    /\ pc[t] = "dial"
    /\ \/ /\ wsConn' = [wsConn EXCEPT ![t] = "open"]
          /\ openConns' = [openConns EXCEPT ![t] = @ + 1]
       \/ /\ MayPanic
          /\ wsConn' = [wsConn EXCEPT ![t] = "nil"]
          /\ UNCHANGED openConns
    /\ pc' = [pc EXCEPT ![t] = "subscribe"]
    /\ UNCHANGED mainVars
    /\ UNCHANGED shutVars
    /\ UNCHANGED storeVars
    /\ UNCHANGED <<indexName, coin, subscribed, message, restarts, nValid,
                   nAdded, watchers, reads, readErr, added>>

\* wsConn.WriteJSON(subscribe), go func() { <-ctx.Done(); os.Exit(1) }(),
\* message := gdax.Message{} and the ticker.  WriteJSON on a nil *ws.Conn
\* dereferences it and panics; the deferred wsConn.Close() panics the same way
\* and the deferred restart function recovers.
Subscribe(t, channel) ==
    /\ proc = "running"
    /\ pc[t] = "subscribe"
    /\ \/ /\ wsConn[t] = "nil"
          /\ pc' = [pc EXCEPT ![t] = "recover"]
          /\ UNCHANGED <<subscribed, watchers, message>>
       \/ /\ wsConn[t] = "open"
          /\ \E err \in BOOLEAN :
                \* err # nil is logged and nothing else
                subscribed' = [subscribed EXCEPT ![t] =
                    [name |-> channel, product |-> coin[t]]]
          /\ watchers' = watchers + 1
          /\ message' = [message EXCEPT ![t] = 0]
          /\ pc' = [pc EXCEPT ![t] = "loop"]
    /\ UNCHANGED mainVars
    /\ UNCHANGED shutVars
    /\ UNCHANGED storeVars
    /\ UNCHANGED <<indexName, coin, wsConn, restarts, nValid, nAdded, reads,
                   readErr,
                   added, openConns>>

\* The request one valid message becomes.
NewBulkIndexRequest(t, channel, time, f) ==
    [index |-> indexName[t], type |-> DocType(channel), doc |-> time,
     from |-> f, closing |-> bulkPc \notin {"none", "wait"}]

\* The error branch without its continue: the message of the last read is
\* indexed again.
ReadErrorNoContinue(t) ==
    /\ readErr' = TRUE
    /\ UNCHANGED <<message, nValid, added>>
    /\ IF IsZero(message[t])
       THEN UNCHANGED <<nAdded, batch, flushes>>
       ELSE /\ nAdded' = [nAdded EXCEPT ![t] = @ + 1]
            /\ Add(t)

\* wsConn.ReadJSON returns an error of the connection, before anything is
\* decoded into message: log and continue.
ReadError(t) ==
    /\ readErr' = TRUE
    /\ UNCHANGED <<message, nValid, nAdded, added, batch, flushes>>

\* Read with the request built and not handed to the bulk processor.
ReadNoAdd(t, channel, f) ==
    LET time == ReadJSON(message[t], f) IN
    /\ readErr' = FALSE
    /\ message' = [message EXCEPT ![t] = time]
    /\ nValid' = [nValid EXCEPT
                     ![t] = @ + (IF f.hasTime /\ ~IsZero(f.time) THEN 1 ELSE 0)]
    /\ IF IsZero(time)
       THEN UNCHANGED <<nAdded, added, batch, flushes>>
       ELSE /\ added' = [added EXCEPT
                            ![t] = NewBulkIndexRequest(t, channel, time, f)]
            /\ nAdded' = [nAdded EXCEPT ![t] = @ + 1]
            /\ UNCHANGED <<batch, flushes>>

\* wsConn.ReadJSON decodes frame f; a message with a zero time is skipped, any
\* other becomes a request added to the bulk processor.
Read(t, channel, f) ==
    LET time == ReadJSON(message[t], f) IN
    /\ readErr' = FALSE
    /\ message' = [message EXCEPT ![t] = time]
    /\ nValid' = [nValid EXCEPT
                     ![t] = @ + (IF f.hasTime /\ ~IsZero(f.time) THEN 1 ELSE 0)]
    /\ IF IsZero(time)
       THEN UNCHANGED <<nAdded, added, batch, flushes>>
       ELSE /\ added' = [added EXCEPT
                            ![t] = NewBulkIndexRequest(t, channel, time, f)]
            /\ nAdded' = [nAdded EXCEPT ![t] = @ + 1]
            /\ Add(t)

\* One tick of for _ = range ticker.C.
Tick(t, channel) ==
    /\ proc = "running"
    /\ pc[t] = "loop"
    /\ MayTick
    /\ reads' = reads + 1
    /\ \/ ReadError(t)
       \/ \E f \in Frames : Read(t, channel, f)
    /\ UNCHANGED mainVars
    /\ UNCHANGED shutVars
    /\ UNCHANGED <<indexExists, bulkActions>>
    /\ UNCHANGED <<pc, indexName, coin, wsConn, subscribed, restarts, watchers,
                   openConns>>

\* A panic of the loop without the deferred wsConn.Close().
PanicNoClose(t) ==
    /\ proc = "running"
    /\ pc[t] = "loop"
    /\ MayPanic
    /\ pc' = [pc EXCEPT ![t] = "recover"]
    /\ UNCHANGED mainVars
    /\ UNCHANGED shutVars
    /\ UNCHANGED storeVars
    /\ UNCHANGED <<indexName, coin, wsConn, subscribed, message, restarts,
                   nValid, nAdded, watchers, reads, readErr, added,
                   openConns>>

\* A call of the loop panics (ReadJSON on a failed connection, Add on a closed
\* processor): the deferred ticker.Stop() and wsConn.Close() run, then the
\* deferred restart function recovers.
Panic(t) ==
    /\ proc = "running"
    /\ pc[t] = "loop"
    /\ MayPanic
    /\ wsConn' = [wsConn EXCEPT ![t] = "closed"]
    /\ openConns' = [openConns EXCEPT ![t] = @ - 1]
    /\ pc' = [pc EXCEPT ![t] = "recover"]
    /\ UNCHANGED mainVars
    /\ UNCHANGED shutVars
    /\ UNCHANGED storeVars
    /\ UNCHANGED <<indexName, coin, subscribed, message, restarts, nValid,
                   nAdded, watchers, reads, readErr, added>>

\* An invocation whose message variable is one variable of the package, set
\* for every goroutine at once.
InvokeSharedMessage(t, newIndexName, newCoin) ==
    /\ pc' = [pc EXCEPT ![t] = "dial"]
    /\ indexName' = [indexName EXCEPT ![t] = newIndexName]
    /\ coin' = [coin EXCEPT ![t] = newCoin]
    /\ wsConn' = [wsConn EXCEPT ![t] = "none"]
    /\ nValid' = [nValid EXCEPT ![t] = 0]
    /\ nAdded' = [nAdded EXCEPT ![t] = 0]
    /\ restarts' = [restarts EXCEPT ![t] = @ + 1]
    /\ subscribed' = [subscribed EXCEPT ![t] = None]
    /\ message' = [u \in Tasks |-> 0]
    /\ added' = [added EXCEPT ![t] = None]

\* A new invocation of the stream function on the same goroutine, from inside
\* the deferred restart function.
Invoke(t, newIndexName, newCoin) ==
    /\ pc' = [pc EXCEPT ![t] = "dial"]
    /\ indexName' = [indexName EXCEPT ![t] = newIndexName]
    /\ coin' = [coin EXCEPT ![t] = newCoin]
    /\ wsConn' = [wsConn EXCEPT ![t] = "none"]
    /\ nValid' = [nValid EXCEPT ![t] = 0]
    /\ nAdded' = [nAdded EXCEPT ![t] = 0]
    /\ restarts' = [restarts EXCEPT ![t] = @ + 1]
    /\ subscribed' = [subscribed EXCEPT ![t] = None]
    /\ message' = [message EXCEPT ![t] = 0]
    /\ added' = [added EXCEPT ![t] = None]

indexTicker(market) ==
    LET t == <<market, "ticker">> IN
    \/ Dial(t)
    \/ Subscribe(t, "ticker")
    \/ Tick(t, "ticker")
    \/ Panic(t)

\* restartTicker without its wg.Add(1).
restartTickerNoAdd(market) ==
    LET t == <<market, "ticker">> IN
    /\ proc = "running"
    /\ pc[t] = "recover"
    /\ wg' = wg
    /\ Invoke(t, indexName[t], coin[t])
    /\ UNCHANGED <<config, mainPc, proc, ctxDone>>
    /\ UNCHANGED shutVars
    /\ UNCHANGED storeVars
    /\ UNCHANGED <<watchers, reads, readErr, openConns>>

\* restartTicker with a retry limit: only the first panic is followed by a new
\* invocation.
restartTickerOnce(market) ==
    LET t == <<market, "ticker">> IN
    /\ proc = "running"
    /\ pc[t] = "recover"
    /\ restarts[t] = 0
    /\ wg' = wg + 1
    /\ Invoke(t, indexName[t], coin[t])
    /\ UNCHANGED <<config, mainPc, proc, ctxDone>>
    /\ UNCHANGED shutVars
    /\ UNCHANGED storeVars
    /\ UNCHANGED <<watchers, reads, readErr, openConns>>

\* recover() returned the panic: time.Sleep(10 * time.Second), wg.Add(1),
\* indexTicker(ctx, indexName, coin, elasticBulkProcessor).
restartTicker(market) ==
    LET t == <<market, "ticker">> IN
    /\ proc = "running"
    /\ pc[t] = "recover"
    /\ wg' = wg + 1
    /\ Invoke(t, indexName[t], coin[t])
    /\ UNCHANGED <<config, mainPc, proc, ctxDone>>
    /\ UNCHANGED shutVars
    /\ UNCHANGED storeVars
    /\ UNCHANGED <<watchers, reads, readErr, openConns>>

indexOrderBook(market) ==
    LET t == <<market, "level2">> IN
    \/ Dial(t)
    \/ Subscribe(t, "level2")
    \/ Tick(t, "level2")
    \/ Panic(t)

\* recover() returned the panic: time.Sleep(10 * time.Second), wg.Add(1),
\* indexOrderBook(ctx, coin, indexName, elasticBulkProcessor).
restartOrderBook(market) ==
    LET t == <<market, "level2">> IN
    /\ proc = "running"
    /\ pc[t] = "recover"
    /\ wg' = wg + 1
    /\ Invoke(t, coin[t], indexName[t])
    /\ UNCHANGED <<config, mainPc, proc, ctxDone>>
    /\ UNCHANGED shutVars
    /\ UNCHANGED storeVars
    /\ UNCHANGED <<watchers, reads, readErr, openConns>>

\* One of the goroutines go func() { <-ctx.Done(); os.Exit(1) }().
watcher ==
    /\ proc = "running"
    /\ watchers > 0
    /\ ctxDone
    /\ proc' = "exit1"
    /\ UNCHANGED <<config, mainPc, ctxDone, wg>>
    /\ UNCHANGED shutVars
    /\ UNCHANGED taskVars
    /\ UNCHANGED storeVars

Next ==
    \/ initializeElasticClient
    \/ initializeElasticBulkProcessor
    \/ initializeIndex
    \/ \E market \in GDAXMarkets : launch(market)
    \/ waitForSignal
    \/ wgWait
    \/ elasticClientShutdown
    \/ elasticBulkProcessorShutdown
    \/ flushInterval
    \/ \E market \in GDAXMarkets : indexTicker(market)
    \/ \E market \in GDAXMarkets : restartTicker(market)
    \/ \E market \in GDAXMarkets : indexOrderBook(market)
    \/ \E market \in GDAXMarkets : restartOrderBook(market)
    \/ watcher

Spec == Init /\ [][Next]_vars

\* time.Sleep returns and the goroutine goes on: a restart function that has
\* recovered a panic is not delayed forever.
FairSpec ==
    /\ Spec
    /\ \A market \in GDAXMarkets : WF_vars(restartTicker(market))
    /\ \A market \in GDAXMarkets : WF_vars(restartOrderBook(market))

\* Every goroutine that is not inside a network call goes on: the watchers,
\* main's wg.Wait(), the two shutdown goroutines, the restart functions and
\* the subscribe step.  wsDialer.Dial and wsConn.ReadJSON block until the
\* exchange answers, and nothing in the code bounds that wait.
ShutdownFairSpec ==
    /\ FairSpec
    /\ WF_vars(watcher)
    /\ WF_vars(wgWait)
    /\ WF_vars(elasticClientShutdown)
    /\ WF_vars(elasticBulkProcessorShutdown)
    /\ \A t \in Tasks : WF_vars(Subscribe(t, t[2]))

\* ------------------------------------------------ the end-to-end scenario
\* The configuration of the scenario: both markets, batch size 3.
ScenarioConfig ==
    [GDAXMarkets |-> GDAXMarkets, ElasticClientBatchSize |-> ScenarioBatchSize]

\* A valid ticker frame.
ScenarioFrame == [hasTime |-> TRUE, time |-> 1]

\* The program after a start-up without fault under ScenarioConfig: the two
\* shutdown goroutines wait, the four stream goroutines have subscribed and
\* are in their loops, nothing has been read.
ScenarioInit ==
    /\ config = ScenarioConfig
    /\ mainPc = "launch"
    /\ proc = "running"
    /\ ctxDone = FALSE
    /\ wg = 2 + 2 * Cardinality(GDAXMarkets)
    /\ clientPc = "wait"
    /\ bulkPc = "wait"
    /\ pc = [t \in Tasks |-> "loop"]
    /\ indexName = [t \in Tasks |-> ElasticIndexName]
    /\ coin = [t \in Tasks |-> t[1]]
    /\ wsConn = [t \in Tasks |-> "open"]
    /\ subscribed = [t \in Tasks |-> [name |-> t[2], product |-> t[1]]]
    /\ message = [t \in Tasks |-> 0]
    /\ restarts = [t \in Tasks |-> 0]
    /\ nValid = [t \in Tasks |-> 0]
    /\ nAdded = [t \in Tasks |-> 0]
    /\ watchers = Cardinality(Tasks)
    /\ reads = 0
    /\ readErr = FALSE
    /\ added = [t \in Tasks |-> None]
    /\ openConns = [t \in Tasks |-> 1]
    /\ indexExists = TRUE
    /\ bulkActions = ScenarioBatchSize
    /\ batch = NoRequests
    /\ flushes = <<>>

\* The mock exchange sends one more valid ticker frame for market and the
\* ticker goroutine of the market reads it on its next tick.
mockExchange(market) ==
    LET t == <<market, "ticker">> IN
    /\ proc = "running"
    /\ pc[t] = "loop"
    /\ nValid[t] < ScenarioFrames
    /\ reads' = reads + 1
    /\ Read(t, "ticker", ScenarioFrame)
    /\ UNCHANGED mainVars
    /\ UNCHANGED shutVars
    /\ UNCHANGED <<indexExists, bulkActions>>
    /\ UNCHANGED <<pc, indexName, coin, wsConn, subscribed, restarts, watchers,
                   openConns>>

ScenarioNext ==
    \/ \E market \in GDAXMarkets : mockExchange(market)
    \/ flushInterval

ScenarioSpec == ScenarioInit /\ [][ScenarioNext]_vars

\* ------------------------------------------------------------- properties
\* An invocation of a stream function that is between its start and its end.
Running(t) == pc[t] \in {"dial", "subscribe", "loop"}

\* A frame that carries a timestamp other than the zero time.
Valid(f) == f.hasTime /\ ~IsZero(f.time)

\* C1: a frame whose timestamp is absent or zero never becomes a request
\* added to the bulk processor, whatever was read before it.
ZeroTimeNeverIndexed ==
    \A t \in Tasks : added[t] # None => Valid(added[t].from)

\* C2: an invocation made by a restart function subscribes to the market and
\* the channel of the first invocation and adds to the configured index.
RestartKeepsSubscription ==
    \A t \in Tasks :
        restarts[t] > 0 =>
            /\ coin[t] = t[1]
            /\ indexName[t] = ElasticIndexName
            /\ subscribed[t] # None =>
                   subscribed[t].product = t[1] /\ subscribed[t].name = t[2]
            /\ added[t] # None => added[t].index = ElasticIndexName

\* C3: an invocation that has read N valid frames has added exactly N
\* requests, each with the configured index name and the channel's type.
ExactlyNIndexed ==
    \A t \in Tasks :
        /\ nAdded[t] = nValid[t]
        /\ added[t] # None =>
               /\ added[t].index = ElasticIndexName
               /\ added[t].type = DocType(t[2])

\* The goroutines registered with the WaitGroup that have started and have
\* not ended.
Outstanding ==
    Cardinality({t \in Tasks : Running(t)})
    + (IF clientPc \in {"wait", "stopped"} THEN 1 ELSE 0)
    + (IF bulkPc \in {"wait", "closing", "closed"} THEN 1 ELSE 0)

\* C4: the WaitGroup's counter is the number of registered goroutines that
\* have started and not ended.
CountIsOutstanding == wg = Outstanding

\* C5: after a successful startup the process ends only with the WaitGroup's
\* counter at zero.
ExitOnlyAtZero == proc \in {"exit1", "returned"} => wg = 0

\* C6: once ctx is cancelled, the bulk processor's Close has returned and the
\* elastic client is stopped by the time the process ends or the counter is
\* zero.
FinalFlushBeforeEnd ==
    (ctxDone /\ (proc # "running" \/ wg = 0)) =>
        /\ bulkPc \in {"closed", "done"}
        /\ clientPc \in {"stopped", "done"}

\* C7: elasticClient.Stop() is not called before elasticBulkProcessor.Close()
\* has returned.
StopAfterClose ==
    clientPc \in {"stopped", "done"} => bulkPc \in {"closed", "done"}

\* C8: when the bulk processor's Close has been called no stream function is
\* running, and no request is added from then on.
NoAddAfterClose ==
    /\ bulkPc \in {"closing", "closed", "done"} => \A t \in Tasks : ~Running(t)
    /\ \A t \in Tasks : added[t] # None => ~added[t].closing

\* C9: an invocation whose Dial failed is not ended by a panic: it is in its
\* read loop or on its way there.
DialFailureOnlyLogged ==
    \A t \in Tasks : wsConn[t] = "nil" => pc[t] \in {"subscribe", "loop"}

RECURSIVE Registrations(_)
Registrations(S) ==
    IF S = {} THEN 0
    ELSE LET t == CHOOSE x \in S : TRUE
         IN (IF pc[t] = "unstarted" THEN 0 ELSE 1 + restarts[t])
            + Registrations(S \ {t})

\* C11: while a restart is pending the WaitGroup's counter is above zero, and
\* the counter holds a registration for every invocation made, the restarted
\* ones included.
RestartPendingCounted ==
    /\ \A t \in Tasks : pc[t] = "recover" => wg > 0
    /\ wg >= Registrations(Tasks)

\* A restarted invocation is in its read loop while another restart is
\* pending.
RestartedRunning ==
    \E t, u \in Tasks :
        restarts[t] > 0 /\ pc[t] = "loop" /\ pc[u] = "recover"

\* C12: once ctx is cancelled no restart function makes a new invocation.
NoRestartAfterCancel ==
    [][ctxDone => \A t \in Tasks : ~(pc[t] = "recover" /\ pc'[t] = "dial")]_vars

\* C13: once ctx is cancelled the process ends.
CancelLeadsToExit == ctxDone ~> (proc # "running")

\* Some stream goroutine has been started.
Launched == \E t \in Tasks : pc[t] # "unstarted"

\* C14: a stream goroutine is started only after the client, the bulk
\* processor and the index have been set up, and a start-up that failed has
\* started none.
StartupBeforeStreams ==
    /\ Launched =>
          /\ clientPc # "none"
          /\ bulkPc # "none"
          /\ bulkActions = config.ElasticClientBatchSize
          /\ indexExists
    /\ proc = "fatal" => ~Launched

\* The start-up has succeeded and the streams are started.
StreamsAfterStartup ==
    /\ Launched
    /\ indexExists
    /\ mainPc = "launch"
    /\ proc = "running"

\* The size of the i-th flushed batch.
FlushSize(i) == NumberOfActions(flushes[i], GDAXMarkets)

\* C16: the pending batch stays below the configured size, every flushed
\* batch holds between one request and the configured size, and a flush
\* leaves the pending batch empty.
BulkFlushPolicy ==
    /\ [](/\ NumberOfActions(batch, GDAXMarkets) <
                config.ElasticClientBatchSize
          /\ \A i \in 1..Len(flushes) :
                /\ FlushSize(i) >= 1
                /\ FlushSize(i) <= config.ElasticClientBatchSize)
    /\ [][Len(flushes') > Len(flushes) => batch' = NoRequests]_vars

\* A batch that reached the configured size has been flushed.
SizeFlush ==
    /\ flushes # <<>>
    /\ FlushSize(Len(flushes)) = config.ElasticClientBatchSize
    /\ batch = NoRequests

TaskState(t) ==
    <<pc[t], wsConn[t], openConns[t], subscribed[t], message[t], added[t],
      nValid[t], nAdded[t], restarts[t], indexName[t], coin[t]>>

\* C18: a step in which one stream goroutine panics, or is invoked again by
\* its restart function, leaves what every other stream goroutine holds and
\* what the bulk processor holds unchanged.
StreamsIsolated ==
    [][\A t \in Tasks :
          (pc'[t] # pc[t] /\ "recover" \in {pc[t], pc'[t]}) =>
              /\ \A u \in Tasks \ {t} : TaskState(u)' = TaskState(u)
              /\ UNCHANGED <<batch, flushes>>]_vars

\* One goroutine has been invoked again while another is in its loop with a
\* frame read.
RestartBesideLoop ==
    \E t, u \in Tasks :
        /\ restarts[t] > 0
        /\ pc[t] = "dial"
        /\ pc[u] = "loop"
        /\ ~IsZero(message[u])

\* C19: a stream goroutine has at most one connection open, it has one in its
\* loop, and none while it waits in its restart function or dials.
OneConnectionPerStream ==
    \A t \in Tasks :
        /\ openConns[t] <= 1
        /\ pc[t] = "loop" => openConns[t] = 1
        /\ pc[t] \in {"unstarted", "dial", "recover"} => openConns[t] = 0

\* A goroutine invoked again has dialled its new connection.
Reconnected ==
    \E t \in Tasks :
        restarts[t] > 0 /\ wsConn[t] = "open" /\ openConns[t] = 1

RECURSIVE FlushesOf(_, _)
FlushesOf(m, i) ==
    IF i = 0 THEN <<>>
    ELSE IF flushes[i][m] = 0 THEN FlushesOf(m, i - 1)
         ELSE Append(FlushesOf(m, i - 1), flushes[i][m])

\* The requests of market m flushed so far.
RECURSIVE Flushed(_, _)
Flushed(m, i) == IF i = 0 THEN 0 ELSE flushes[i][m] + Flushed(m, i - 1)

\* Every frame of the scenario has been read and nothing is pending.
ScenarioDone ==
    /\ \A market \in GDAXMarkets :
          nValid[<<market, "ticker">>] = ScenarioFrames
    /\ batch = NoRequests

\* C15 as stated: at the end of the scenario each market has had two flushes,
\* of ScenarioBatchSize requests and then of the rest.
TwoFlushesPerMarket ==
    ScenarioDone =>
        \A market \in GDAXMarkets :
            FlushesOf(market, Len(flushes)) =
                <<ScenarioBatchSize, ScenarioFrames - ScenarioBatchSize>>

\* C15: the one bulk processor batches the requests of all markets together;
\* every request added is pending or in one flushed batch, no flushed batch
\* is empty or above the batch size, and at the end of the scenario the
\* flushed batches hold ScenarioFrames requests of each market.
ScenarioAllFlushed ==
    /\ \A market \in GDAXMarkets :
          /\ nAdded[<<market, "ticker">>] =
                Flushed(market, Len(flushes)) + batch[market]
          /\ ScenarioDone => Flushed(market, Len(flushes)) = ScenarioFrames
    /\ \A i \in 1..Len(flushes) :
          FlushSize(i) >= 1 /\ FlushSize(i) <= ScenarioBatchSize

\* The scenario has ended with a flushed batch that holds requests of both
\* markets.
ScenarioMixedFlush ==
    /\ ScenarioDone
    /\ \E i \in 1..Len(flushes) :
          \A market \in GDAXMarkets : flushes[i][market] > 0

====
